---- MODULE Spec2Model ----
(***************************************************************************)
(* Scoring pipeline of the NFL prediction pool ("app copy 8.py"):          *)
(*   - calcular_e_atualizar_pontuacoes_jogo : raw points of the palpites   *)
(*     of one game (Game Scorer);                                          *)
(*   - calcular_pontos_f1_por_rodada : F1-like points of one round         *)
(*     (Round Ranker).                                                     *)
(* The store is the relational store of the application: the tables Jogo,  *)
(* Palpite and PontuacaoRodada, one record per row.                        *)
(***************************************************************************)
EXTENDS Integers, Sequences, FiniteSets, TLC

VARIABLES
    participantes,      \* ids of the rows of table Participante
    jogos,              \* table Jogo: id -> row
    palpites,           \* table Palpite: set of rows
    pontuacoes_rodada,  \* table PontuacaoRodada: set of rows
    ultima              \* the last operation run: which one, on what, what it returned

vars == <<participantes, jogos, palpites, pontuacoes_rodada, ultima>>

\* ------------------------------------------------------------------------
\* Bounds of the model
\* ------------------------------------------------------------------------
MaxPlacar == 1              \* scores are drawn from 0..MaxPlacar
NumApostadores == 2         \* participants of the scorer specification
MaxParticipantes == 11      \* participants of the ranker specification: 0..MaxParticipantes
NumSemanas == 2             \* the ranker is run on the rounds 1..NumSemanas
MaxRotacao == 1             \* orders of equal totals: rotations 0..MaxRotacao of the id order
MaxJogos == 3               \* the games of the application have the ids 1..MaxJogos

\* ------------------------------------------------------------------------
\* Column domains
\* ------------------------------------------------------------------------
None == "None"              \* Jogo.resultado when unset (nullable=True)
NULO == -1                  \* Jogo.placar_timeN_final when unset (nullable=True)

Escolhas == {"time1_vence", "time2_vence", "empate"}
Placares == 0..MaxPlacar

\* data_hora is kept in hours since a Monday 00:00 UTC.
weekday(data_hora) == (data_hora \div 24) % 7
hour(data_hora) == data_hora % 24

SextaMadrugada == 4 * 24 + 2    \* Friday 02:00 UTC
SabadoTarde == 5 * 24 + 18      \* Saturday 18:00 UTC
DataHoras == {SextaMadrugada, SabadoTarde}

Jogo(semana, data_hora, resultado, p1, p2) ==
    [semana |-> semana, data_hora |-> data_hora, resultado |-> resultado,
     placar_time1_final |-> p1, placar_time2_final |-> p2]

Palpite(participante_id, jogo_id, escolha, p1, p2, pontos) ==
    [participante_id |-> participante_id, jogo_id |-> jogo_id, escolha |-> escolha,
     placar_time1 |-> p1, placar_time2 |-> p2, pontuacao_recebida |-> pontos]

PontuacaoRodada(participante_id, semana, pontos_f1) ==
    [participante_id |-> participante_id, semana |-> semana, pontos_f1 |-> pontos_f1]

abs(x) == IF x < 0 THEN -x ELSE x

\* ------------------------------------------------------------------------
\* Game Scorer
\* ------------------------------------------------------------------------
\* Mutant of is_prime_game: the hour 05 counts as madrugada.
is_prime_game_Ate5(jogo) ==
    LET dia_semana_utc == weekday(jogo.data_hora)
        hora_utc == hour(jogo.data_hora)
        is_madrugada_utc == hora_utc >= 0 /\ hora_utc <= 5
    IN  is_madrugada_utc /\ (dia_semana_utc = 4 \/ dia_semana_utc = 0 \/ dia_semana_utc = 1)

is_prime_game(jogo) ==
    LET dia_semana_utc == weekday(jogo.data_hora)
        hora_utc == hour(jogo.data_hora)
        is_madrugada_utc == hora_utc >= 0 /\ hora_utc <= 4
    IN  is_madrugada_utc /\ (dia_semana_utc = 4 \/ dia_semana_utc = 0 \/ dia_semana_utc = 1)

\* The guard of the scorer: the game has a result the palpites can be scored against.
TemResultado(jogo) ==
    ~ (jogo.resultado = None \/ jogo.placar_time1_final = NULO \/ jogo.placar_time2_final = NULO)

\* Mutant of PontosPlacar: the differential is tested after the exact score
\* instead of in its else branch.
PontosPlacar_SemElse(palpite, jogo) ==
    LET exato == /\ palpite.placar_time1 = jogo.placar_time1_final
                 /\ palpite.placar_time2 = jogo.placar_time2_final
        palpite_diferenca == abs(palpite.placar_time1 - palpite.placar_time2)
        jogo_diferenca == abs(jogo.placar_time1_final - jogo.placar_time2_final)
    IN  (IF exato THEN 1 ELSE 0) + (IF palpite_diferenca = jogo_diferenca THEN 1 ELSE 0)

\* Mutant of PontosPlacar: the differentials are compared signed.
PontosPlacar_SemAbs(palpite, jogo) ==
    LET exato == /\ palpite.placar_time1 = jogo.placar_time1_final
                 /\ palpite.placar_time2 = jogo.placar_time2_final
        palpite_diferenca == palpite.placar_time1 - palpite.placar_time2
        jogo_diferenca == jogo.placar_time1_final - jogo.placar_time2_final
    IN  IF exato THEN 1
        ELSE IF palpite_diferenca = jogo_diferenca THEN 1 ELSE 0

\* The points of the score: 1 for the exact score, else 1 for the same differential.
PontosPlacar(palpite, jogo) ==
    LET exato == /\ palpite.placar_time1 = jogo.placar_time1_final
                 /\ palpite.placar_time2 = jogo.placar_time2_final
        palpite_diferenca == abs(palpite.placar_time1 - palpite.placar_time2)
        jogo_diferenca == abs(jogo.placar_time1_final - jogo.placar_time2_final)
    IN  IF exato THEN 1
        ELSE IF palpite_diferenca = jogo_diferenca THEN 1 ELSE 0

\* Mutant of PontuacaoAtual: the points of the score are given outside the
\* test of the winner.
PontuacaoAtual_PlacarSemAcerto(palpite, jogo) ==
    LET acertou == palpite.escolha = jogo.resultado
        bonus == IF is_prime_game(jogo) THEN 3 ELSE 0
    IN  (IF acertou THEN 1 + bonus ELSE 0) + PontosPlacar(palpite, jogo)

\* pontuacao_atual of one palpite, the body of the scorer's loop.
PontuacaoAtual(palpite, jogo) ==
    LET acertou == palpite.escolha = jogo.resultado
        bonus == IF is_prime_game(jogo) THEN 3 ELSE 0
    IN  IF acertou THEN 1 + bonus + PontosPlacar(palpite, jogo) ELSE 0

\* Mutant of PalpitesPontuados: pontuacao_atual starts at the stored points
\* (the column comment bounds the raw points by 6).
PalpitesPontuados_Acumula(tabela, jogo_id, jogo) ==
    { IF p.jogo_id = jogo_id
        THEN [p EXCEPT !.pontuacao_recebida =
                 IF TemResultado(jogo)
                 THEN IF p.pontuacao_recebida + PontuacaoAtual(p, jogo) > 6 THEN 6
                      ELSE p.pontuacao_recebida + PontuacaoAtual(p, jogo)
                 ELSE 0]
        ELSE p : p \in tabela }

\* Mutant of PalpitesPontuados: a game without result returns without
\* touching the palpites (the scorer of app.py).
PalpitesPontuados_SemZerar(tabela, jogo_id, jogo) ==
    { IF p.jogo_id = jogo_id /\ TemResultado(jogo)
        THEN [p EXCEPT !.pontuacao_recebida = PontuacaoAtual(p, jogo)]
        ELSE p : p \in tabela }

\* Mutant of PalpitesPontuados: the loop runs over the palpites of every game.
PalpitesPontuados_TodosOsJogos(tabela, jogo_id, jogo) ==
    { [p EXCEPT !.pontuacao_recebida =
          IF TemResultado(jogo) THEN PontuacaoAtual(p, jogo) ELSE 0] : p \in tabela }

\* The table Palpite after the scorer ran on game jogo_id.
PalpitesPontuados(tabela, jogo_id, jogo) ==
    { IF p.jogo_id = jogo_id
        THEN [p EXCEPT !.pontuacao_recebida =
                 IF TemResultado(jogo) THEN PontuacaoAtual(p, jogo) ELSE 0]
        ELSE p : p \in tabela }

\* sujos: the participants whose palpite the run marked for the commit;
\* apagados: the participants whose PontuacaoRodada row the run deleted.
Operacao(op, jogo_id, semana, retorno, execucoes, sujos, apagados) ==
    [op |-> op, jogo |-> jogo_id, semana |-> semana, retorno |-> retorno,
     execucoes |-> execucoes, sujos |-> sujos, apagados |-> apagados]

\* How many times in a row the operation op ran on the same argument (2 = twice or more).
Execucoes(op, jogo_id, semana) ==
    IF ultima.op = op /\ ultima.jogo = jogo_id /\ ultima.semana = semana
    THEN 2 ELSE 1

calcular_e_atualizar_pontuacoes_jogo(jogo_id) ==
    /\ jogo_id \in DOMAIN jogos
    /\ LET jogo == jogos[jogo_id]
           novos == PalpitesPontuados(palpites, jogo_id, jogo)
       IN  /\ palpites' = novos
           /\ ultima' = Operacao("pontuar", jogo_id, 0, TemResultado(jogo),
                                 Execucoes("pontuar", jogo_id, 0),
                                 { p.participante_id : p \in palpites \ novos }, {})
    /\ UNCHANGED <<participantes, jogos, pontuacoes_rodada>>

\* ------------------------------------------------------------------------
\* Specification of the scorer: any game 1 and palpites on it, next to a
\* finalised prime game 2 with a palpite not yet scored
\* ------------------------------------------------------------------------
PontosAnteriores == {0, 5}

JogosPossiveis ==
    { Jogo(1, d, r, p1, p2) :
        d \in DataHoras, r \in Escolhas \cup {None},
        p1 \in Placares \cup {NULO}, p2 \in Placares \cup {NULO} }

JogoFixo == Jogo(1, SextaMadrugada, "time1_vence", 1, 0)
PalpiteFixo == Palpite(1, 2, "time1_vence", 1, 0, 0)

\* The palpite of participant 1 on game 1 is any palpite.
PalpitesDoPrimeiro ==
    { Palpite(1, 1, e, p1, p2, pts) :
        e \in Escolhas, p1 \in Placares, p2 \in Placares, pts \in PontosAnteriores }

\* The palpites of the other participants on game 1 vary in their escolha
\* (None: no palpite) and are not scored yet.
PalpitesDosOutros(escolhas) ==
    { Palpite(p, 1, escolhas[p], p % (MaxPlacar + 1), 0, 0) :
        p \in { q \in DOMAIN escolhas : escolhas[q] # None } }

InitScorer ==
    /\ participantes = 1..NumApostadores
    /\ \E j \in JogosPossiveis : jogos = (1 :> j) @@ (2 :> JogoFixo)
    /\ \E primeiro \in {{}} \cup { {x} : x \in PalpitesDoPrimeiro } :
         \E escolhas \in [2..NumApostadores -> Escolhas \cup {None}] :
            palpites = primeiro \cup PalpitesDosOutros(escolhas) \cup {PalpiteFixo}
    /\ pontuacoes_rodada = {}
    /\ ultima = Operacao("init", 0, 0, FALSE, 0, {}, {})

NextScorer == \E jogo_id \in DOMAIN jogos : calcular_e_atualizar_pontuacoes_jogo(jogo_id)

SpecScorer == InitScorer /\ [][NextScorer]_vars

\* ------------------------------------------------------------------------
\* Round Ranker
\* ------------------------------------------------------------------------
pontos_f1_tabela == <<25, 18, 15, 12, 10, 8, 6, 4, 2, 1>>

RECURSIVE Soma(_)
Soma(linhas) ==
    IF linhas = {} THEN 0
    ELSE LET p == CHOOSE x \in linhas : TRUE
         IN  p.pontuacao_recebida + Soma(linhas \ {p})

\* Participante JOIN Palpite JOIN Jogo WHERE Jogo.semana = semana, over the
\* tables as a query of the session sees them.
PalpitesNaSemana(tabela_jogos, tabela_palpites, pid, semana) ==
    { p \in tabela_palpites : /\ p.participante_id = pid
                              /\ p.jogo_id \in DOMAIN tabela_jogos
                              /\ tabela_jogos[p.jogo_id].semana = semana }

PalpitesDaSemana(pid, semana) == PalpitesNaSemana(jogos, palpites, pid, semana)

\* GROUP BY Participante.id with SUM(pontuacao_recebida): one entry for each
\* participant with at least one palpite in the round.
Agregado(tabela_participantes, tabela_jogos, tabela_palpites, semana) ==
    { [participante_id |-> pid,
       total_pontos_raw |-> Soma(PalpitesNaSemana(tabela_jogos, tabela_palpites, pid, semana))] :
        pid \in { q \in tabela_participantes :
                    PalpitesNaSemana(tabela_jogos, tabela_palpites, q, semana) # {} } }

pontuacoes_raw_por_participante(semana) == Agregado(participantes, jogos, palpites, semana)

\* ORDER BY SUM(...) DESC leaves the order of equal totals to the database.
\* The orders of the ties are the rotations of the id order, ascending and
\* descending: Desempate(pid, k, d) is the rank of pid among equal totals.
Desempates == (0..MaxRotacao) \X {0, 1}

Desempate(pid, desempate) ==
    LET r == (pid + desempate[1]) % (MaxParticipantes + 1)
    IN  IF desempate[2] = 0 THEN r ELSE MaxParticipantes - r

Antes(x, y, desempate) ==
    \/ x.total_pontos_raw > y.total_pontos_raw
    \/ /\ x.total_pontos_raw = y.total_pontos_raw
       /\ Desempate(x.participante_id, desempate) < Desempate(y.participante_id, desempate)

RECURSIVE Ordenado(_, _)
Ordenado(entradas, desempate) ==
    IF entradas = {} THEN << >>
    ELSE LET primeiro == CHOOSE x \in entradas :
                            \A y \in entradas \ {x} : Antes(x, y, desempate)
         IN  <<primeiro>> \o Ordenado(entradas \ {primeiro}, desempate)

\* Mutant of Percorrer: the position is the list index of every entry (ties
\* do not share a position).
RECURSIVE Percorrer_SemEmpate(_, _, _, _, _)
Percorrer_SemEmpate(lista, i, posicao_atual, ultima_pontuacao_raw, semana) ==
    IF i >= Len(lista) THEN {}
    ELSE LET total_pontos_raw == lista[i + 1].total_pontos_raw
         IN  IF total_pontos_raw = 0 THEN {}
             ELSE LET posicao == i
                      pontos_f1 == IF posicao < Len(pontos_f1_tabela)
                                   THEN pontos_f1_tabela[posicao + 1] ELSE 0
                  IN  {PontuacaoRodada(lista[i + 1].participante_id, semana, pontos_f1)}
                        \cup Percorrer_SemEmpate(lista, i + 1, posicao, total_pontos_raw, semana)

\* Mutant of Percorrer: a lower total takes the position right after the
\* previous one (dense ranking).
RECURSIVE Percorrer_Denso(_, _, _, _, _)
Percorrer_Denso(lista, i, posicao_atual, ultima_pontuacao_raw, semana) ==
    IF i >= Len(lista) THEN {}
    ELSE LET total_pontos_raw == lista[i + 1].total_pontos_raw
         IN  IF total_pontos_raw = 0 THEN {}
             ELSE LET posicao == IF total_pontos_raw < ultima_pontuacao_raw
                                 THEN posicao_atual + 1 ELSE posicao_atual
                      pontos_f1 == IF posicao < Len(pontos_f1_tabela)
                                   THEN pontos_f1_tabela[posicao + 1] ELSE 0
                  IN  {PontuacaoRodada(lista[i + 1].participante_id, semana, pontos_f1)}
                        \cup Percorrer_Denso(lista, i + 1, posicao, total_pontos_raw, semana)

\* The loop over enumerate(pontuacoes_raw_por_participante) from index i on
\* (0-based, as in the code): the rows it adds to the session.
RECURSIVE Percorrer(_, _, _, _, _)
Percorrer(lista, i, posicao_atual, ultima_pontuacao_raw, semana) ==
    IF i >= Len(lista) THEN {}
    ELSE LET total_pontos_raw == lista[i + 1].total_pontos_raw
         IN  IF total_pontos_raw = 0 THEN {}
             ELSE LET posicao == IF total_pontos_raw < ultima_pontuacao_raw
                                 THEN i ELSE posicao_atual
                      pontos_f1 == IF posicao < Len(pontos_f1_tabela)
                                   THEN pontos_f1_tabela[posicao + 1] ELSE 0
                  IN  {PontuacaoRodada(lista[i + 1].participante_id, semana, pontos_f1)}
                        \cup Percorrer(lista, i + 1, posicao, total_pontos_raw, semana)

\* Mutant of RodadaRecalculada: the rows of the round are not deleted first.
RodadaRecalculada_SemDelete(tabela, semana, lista) ==
    tabela \cup Percorrer(lista, 0, 0, -1, semana)

\* Mutant of RodadaRecalculada: the delete takes the rows of every round.
RodadaRecalculada_ApagaTudo(tabela, semana, lista) ==
    Percorrer(lista, 0, 0, -1, semana)

\* The table PontuacaoRodada after the ranker ran on the round, the
\* aggregate having come back from the database as lista.
RodadaRecalculada(tabela, semana, lista) ==
    { r \in tabela : r.semana # semana } \cup Percorrer(lista, 0, 0, -1, semana)

calcular_pontos_f1_por_rodada(semana) ==
    /\ \E desempate \in Desempates :
         pontuacoes_rodada' =
            RodadaRecalculada(pontuacoes_rodada, semana,
                              Ordenado(pontuacoes_raw_por_participante(semana), desempate))
    /\ ultima' = Operacao("ranker", 0, semana, FALSE, Execucoes("ranker", 0, semana), {},
                          { r.participante_id : r \in { x \in pontuacoes_rodada : x.semana = semana } })
    /\ UNCHANGED <<participantes, jogos, palpites>>

\* ------------------------------------------------------------------------
\* Specification of the ranker: games 1 and 2 in round 1, game 3 in round 2.
\* On game 1 the participants 1..a hold 5 raw points, a+1..b hold 2, b+1..z
\* hold 0 and the others have no palpite; on game 2 the participants 1..c
\* hold 5, where c is 0 or z; participant 1 holds 5 on game 3.
\* PontuacaoRodada is empty or holds a row of an earlier run for every
\* participant and round.
\* ------------------------------------------------------------------------
JogosDaRodada ==
    (1 :> Jogo(1, SextaMadrugada, "time1_vence", 1, 0))
        @@ (2 :> Jogo(1, SabadoTarde, "time2_vence", 0, 1))
        @@ (3 :> Jogo(2, SabadoTarde, "time1_vence", 1, 0))

PalpitesDaRodada(a, b, z, c) ==
    { Palpite(p, 1, "time1_vence", 1, 0, IF p <= a THEN 5 ELSE IF p <= b THEN 2 ELSE 0) :
        p \in 1..z }
      \cup { Palpite(p, 2, "time2_vence", 0, 1, 5) : p \in 1..c }
      \cup { Palpite(1, 3, "time1_vence", 1, 0, 5) }

InitRanker ==
    /\ participantes = 1..MaxParticipantes
    /\ jogos = JogosDaRodada
    /\ \E z \in 0..MaxParticipantes : \E b \in 0..z : \E a \in 0..b : \E c \in {0, z} :
          palpites = PalpitesDaRodada(a, b, z, c)
    /\ \E antigas \in { {}, { PontuacaoRodada(p, s, 25) : p \in participantes, s \in 1..2 } } :
          pontuacoes_rodada = antigas
    /\ ultima = Operacao("init", 0, 0, FALSE, 0, {}, {})

NextRanker == \E semana \in 1..NumSemanas : calcular_pontos_f1_por_rodada(semana)

SpecRanker == InitRanker /\ [][NextRanker]_vars

\* ------------------------------------------------------------------------
\* Round-completeness predicate
\* ------------------------------------------------------------------------
\* Mutant of todos_jogos_semana_finalizados: a round without games counts
\* as finalised.
todos_jogos_semana_finalizados_SemJogos(semana) ==
    LET jogos_na_semana == { j \in DOMAIN jogos : jogos[j].semana = semana }
    IN  \A j \in jogos_na_semana :
            ~ (\/ jogos[j].resultado = None
               \/ jogos[j].placar_time1_final = NULO
               \/ jogos[j].placar_time2_final = NULO)

\* Mutant of todos_jogos_semana_finalizados: only resultado is tested.
todos_jogos_semana_finalizados_SoResultado(semana) ==
    LET jogos_na_semana == { j \in DOMAIN jogos : jogos[j].semana = semana }
    IN  IF jogos_na_semana = {} THEN FALSE
        ELSE \A j \in jogos_na_semana : ~ (jogos[j].resultado = None)

\* The predicate over the table jogo as a query of the session sees it.
Finalizados(tabela_jogos, semana) ==
    LET jogos_na_semana == { j \in DOMAIN tabela_jogos : tabela_jogos[j].semana = semana }
    IN  IF jogos_na_semana = {} THEN FALSE
        ELSE \A j \in jogos_na_semana :
                ~ (\/ tabela_jogos[j].resultado = None
                   \/ tabela_jogos[j].placar_time1_final = NULO
                   \/ tabela_jogos[j].placar_time2_final = NULO)

todos_jogos_semana_finalizados(semana) == Finalizados(jogos, semana)

\* ------------------------------------------------------------------------
\* Specification of the round-completeness predicate: up to MaxJogos games,
\* each in any round with each of its three result fields set or unset.
\* ------------------------------------------------------------------------
LinhasDeJogo ==
    { Jogo(s, SabadoTarde, r, p1, p2) :
        s \in 1..NumSemanas, r \in {None, "time1_vence"}, p1 \in {NULO, 1}, p2 \in {NULO, 0} }

VerificarSemana(semana) ==
    /\ ultima' = Operacao("finalizados", 0, semana, todos_jogos_semana_finalizados(semana),
                          1, {}, {})
    /\ UNCHANGED <<participantes, jogos, palpites, pontuacoes_rodada>>

InitFinalizados ==
    /\ participantes = {}
    /\ \E ids \in SUBSET (1..MaxJogos) : jogos \in [ids -> LinhasDeJogo]
    /\ palpites = {}
    /\ pontuacoes_rodada = {}
    /\ ultima = Operacao("init", 0, 0, FALSE, 0, {}, {})

NextFinalizados == \E semana \in 1..NumSemanas : VerificarSemana(semana)

SpecFinalizados == InitFinalizados /\ [][NextFinalizados]_vars

\* ------------------------------------------------------------------------
\* Specification of the prime-game predicate: a game at any hour of the week
\* ------------------------------------------------------------------------
HorasDaSemana == 7 * 24

VerificarPrime(jogo_id) ==
    /\ jogo_id \in DOMAIN jogos
    /\ ultima' = Operacao("prime", jogo_id, 0, is_prime_game(jogos[jogo_id]), 1, {}, {})
    /\ UNCHANGED <<participantes, jogos, palpites, pontuacoes_rodada>>

InitPrime ==
    /\ participantes = {}
    /\ \E d \in 0..(HorasDaSemana - 1) : jogos = (1 :> Jogo(1, d, None, NULO, NULO))
    /\ palpites = {}
    /\ pontuacoes_rodada = {}
    /\ ultima = Operacao("init", 0, 0, FALSE, 0, {}, {})

NextPrime == \E jogo_id \in DOMAIN jogos : VerificarPrime(jogo_id)

SpecPrime == InitPrime /\ [][NextPrime]_vars

\* ------------------------------------------------------------------------
\* Prediction submission (route /palpitar)
\* ------------------------------------------------------------------------
\* The text of a form field: "" is a field left blank, NaoInteiro a text
\* that int() rejects, a natural number the text of that number.
Vazio == ""
NaoInteiro == NULO - 1

\* The record of a request: the operation record plus what was submitted.
Pedido(operacao, participante_id, formulario, agora) ==
    operacao @@ [participante |-> participante_id, formulario |-> formulario, agora |-> agora]

\* Mutant of PalpiteGravado: the form always becomes a new row.
PalpiteGravado_SempreInsere(tabela, participante_id, jogo_id, escolha, placar_time1, placar_time2) ==
    tabela \cup {Palpite(participante_id, jogo_id, escolha, placar_time1, placar_time2, 0)}

\* The table after lines 511-529: the row of the pair gets the submitted
\* escolha and placares and keeps its pontuacao_recebida; without a row of
\* the pair a new one is added with the column default 0.
PalpiteGravado(tabela, participante_id, jogo_id, escolha, placar_time1, placar_time2) ==
    LET palpite_existente ==
            { p \in tabela : p.participante_id = participante_id /\ p.jogo_id = jogo_id }
    IN  IF palpite_existente # {}
        THEN (tabela \ palpite_existente) \cup
             { Palpite(participante_id, jogo_id, escolha, placar_time1, placar_time2,
                       p.pontuacao_recebida) : p \in palpite_existente }
        ELSE tabela \cup {Palpite(participante_id, jogo_id, escolha, placar_time1, placar_time2, 0)}

\* formulario = <<escolha, placar_time1_str, placar_time2_str>>; the record of
\* the request keeps in sujos the participant whose row was written and in
\* apagados the participant whose existing row was overwritten.
palpitar(participante_id, jogo_id, formulario, agora) ==
    LET escolha == formulario[1]
        placar_time1_str == formulario[2]
        placar_time2_str == formulario[3]
        aceito ==
            /\ escolha # Vazio /\ placar_time1_str # NULO /\ placar_time2_str # NULO
            /\ jogo_id \in DOMAIN jogos
            /\ ~ (jogos[jogo_id].data_hora < agora)
            /\ placar_time1_str # NaoInteiro /\ placar_time2_str # NaoInteiro
        palpite_existente ==
            { p \in palpites : p.participante_id = participante_id /\ p.jogo_id = jogo_id }
    IN  /\ participante_id \in participantes
        /\ palpites' = IF aceito
                       THEN PalpiteGravado(palpites, participante_id, jogo_id, escolha,
                                           placar_time1_str, placar_time2_str)
                       ELSE palpites
        /\ ultima' = Pedido(Operacao("palpitar", jogo_id, 0, aceito, 1,
                                     IF aceito THEN {participante_id} ELSE {},
                                     IF aceito THEN { p.participante_id : p \in palpite_existente }
                                     ELSE {}),
                            participante_id, formulario, agora)
        /\ UNCHANGED <<participantes, jogos, pontuacoes_rodada>>

\* ------------------------------------------------------------------------
\* Specification of the prediction submission: two games without a result,
\* NumApostadores participants, requests at the hours around the first start.
\* ------------------------------------------------------------------------
Formularios ==
    { <<"time1_vence", MaxPlacar, 0>>, <<"empate", 0, 0>>,
      <<Vazio, 0, 0>>, <<"empate", NULO, 0>>, <<"empate", 0, NaoInteiro>> }

\* The hour of the start of game 1 and the hour after it; game 2 starts
\* after both.
Agoras == { SextaMadrugada + k : k \in {0, 1} }

\* The ids a form can carry: those of the games and one that no game has.
IdsDeFormulario == 1..(Cardinality(DOMAIN jogos) + 1)

InitPalpitar ==
    /\ participantes = 1..NumApostadores
    /\ jogos = (1 :> Jogo(1, SextaMadrugada, None, NULO, NULO)) @@
               (2 :> Jogo(1, SabadoTarde, None, NULO, NULO))
    /\ palpites = {}
    /\ pontuacoes_rodada = {}
    /\ ultima = Operacao("init", 0, 0, FALSE, 0, {}, {})

NextPalpitar ==
    \E participante_id \in participantes, jogo_id \in IdsDeFormulario,
       formulario \in Formularios, agora \in Agoras :
        palpitar(participante_id, jogo_id, formulario, agora)

SpecPalpitar == InitPalpitar /\ [][NextPalpitar]_vars

\* ------------------------------------------------------------------------
\* Admin routes
\* ------------------------------------------------------------------------
\* The three result fields <<resultado, placar_time1_final, placar_time2_final>>
\* that the requests of the model carry: none, all three, the tag alone.
SemResultado == <<None, NULO, NULO>>
ResultadoEmpate == <<"empate", 0, 0>>
SoResultado == <<"empate", NULO, NULO>>

\* The record of an admin request: afetadas are the rounds the route tests
\* with todos_jogos_semana_finalizados, rankeadas the rounds for which it
\* called the ranker and committed, falhou tells that an exception after the
\* first commit ended the request, apagados are the participants who lost a
\* row to a cascade.
Requisicao(op, afetadas, rankeadas, falhou, apagados) ==
    Operacao(op, 0, 0, TRUE, 1, {}, apagados)
        @@ [afetadas |-> afetadas, rankeadas |-> rankeadas, falhou |-> falhou]

\* A request that the route refuses, or that ends in the rollback of the
\* ValueError handler, commits nothing.
Recusada == UNCHANGED vars

\* Mutant of SemanasFinalizadas: the ranker is called for every round of the
\* request.
SemanasFinalizadas_SemTeste(tabela_jogos, semanas) == semanas

\* for semana in semanas: if todos_jogos_semana_finalizados(semana): ...
SemanasFinalizadas(tabela_jogos, semanas) ==
    { semana \in semanas : Finalizados(tabela_jogos, semana) }

\* Mutant of Recalcular: the ranker reads the palpites as they were before
\* the scorer ran in the request.
RECURSIVE Recalcular_PalpitesAntigos(_, _, _, _, _, _)
Recalcular_PalpitesAntigos(tabela, semanas, desempate, tabela_participantes, tabela_jogos, tabela_palpites) ==
    IF semanas = {} THEN tabela
    ELSE LET semana == CHOOSE s \in semanas : TRUE
             lista == Ordenado(Agregado(tabela_participantes, tabela_jogos,
                                        palpites, semana), desempate)
         IN  Recalcular_PalpitesAntigos(RodadaRecalculada(tabela, semana, lista),
                                        semanas \ {semana}, desempate,
                                        tabela_participantes, tabela_jogos, tabela_palpites)

\* The ranker called for each round of semanas in turn, each call followed
\* by a commit; the ranker reads the tables that the first commit of the
\* route left.
RECURSIVE Recalcular(_, _, _, _, _, _)
Recalcular(tabela, semanas, desempate, tabela_participantes, tabela_jogos, tabela_palpites) ==
    IF semanas = {} THEN tabela
    ELSE LET semana == CHOOSE s \in semanas : TRUE
             lista == Ordenado(Agregado(tabela_participantes, tabela_jogos,
                                        tabela_palpites, semana), desempate)
         IN  Recalcular(RodadaRecalculada(tabela, semana, lista), semanas \ {semana},
                        desempate, tabela_participantes, tabela_jogos, tabela_palpites)

\* The end of a route, after the commit of novos_jogos and novos_palpites:
\* the ranker and a commit for each finalised round of semanas. With falha
\* the first call of the ranker raises, the handler rolls back, and the
\* store stays as that first commit left it.
RankearFinalizadas(novos_jogos, novos_palpites, semanas, falha) ==
    /\ falha => SemanasFinalizadas(novos_jogos, semanas) # {}
    /\ jogos' = novos_jogos
    /\ palpites' = novos_palpites
    /\ IF falha \/ SemanasFinalizadas(novos_jogos, semanas) = {}
       THEN pontuacoes_rodada' = pontuacoes_rodada
       ELSE \E desempate \in Desempates :
               pontuacoes_rodada' =
                  Recalcular(pontuacoes_rodada, SemanasFinalizadas(novos_jogos, semanas),
                             desempate, participantes, novos_jogos, novos_palpites)
    /\ UNCHANGED participantes

Rankeadas(novos_jogos, semanas, falha) ==
    IF falha THEN {} ELSE SemanasFinalizadas(novos_jogos, semanas)

ComResultado(jogo, resultado, placar_time1_final, placar_time2_final) ==
    [jogo EXCEPT !.resultado = resultado,
                 !.placar_time1_final = placar_time1_final,
                 !.placar_time2_final = placar_time2_final]

\* POST /definir_resultado; formulario = <<resultado, placar_time1_final_str,
\* placar_time2_final_str>>.
definir_resultado(jogo_id, formulario, falha) ==
    LET resultado == formulario[1]
        placar_time1_final_str == formulario[2]
        placar_time2_final_str == formulario[3]
        aceito ==
            /\ resultado # Vazio /\ placar_time1_final_str # NULO /\ placar_time2_final_str # NULO
            /\ jogo_id \in DOMAIN jogos
            /\ placar_time1_final_str # NaoInteiro /\ placar_time2_final_str # NaoInteiro
    IN  IF ~ aceito THEN ~ falha /\ Recusada
        ELSE LET jogo == ComResultado(jogos[jogo_id], resultado, placar_time1_final_str,
                                      placar_time2_final_str)
                 novos_jogos == [jogos EXCEPT ![jogo_id] = jogo]
                 novos_palpites == PalpitesPontuados(palpites, jogo_id, jogo)
             IN  /\ RankearFinalizadas(novos_jogos, novos_palpites, {jogo.semana}, falha)
                 /\ ultima' = Requisicao("definir_resultado", {jogo.semana},
                                         Rankeadas(novos_jogos, {jogo.semana}, falha), falha, {})

\* The scorer called for each game of ids in turn (the scorer writes only
\* the palpites of its game).
RECURSIVE PontuarJogos(_, _, _)
PontuarJogos(tabela, ids, tabela_jogos) ==
    IF ids = {} THEN tabela
    ELSE LET jogo_id == CHOOSE j \in ids : TRUE
         IN  PontuarJogos(PalpitesPontuados(tabela, jogo_id, tabela_jogos[jogo_id]),
                          ids \ {jogo_id}, tabela_jogos)

\* POST /importar_resultados_json; arquivo maps the id of each record of the
\* file to <<resultado, placar_time1_final, placar_time2_final>>, NULO and
\* None standing for a key the record does not have.
importar_resultados_json_route(arquivo, falha) ==
    LET encontrados == DOMAIN arquivo \cap DOMAIN jogos
        novos_jogos == [j \in DOMAIN jogos |->
                           IF j \in encontrados
                           THEN ComResultado(jogos[j], arquivo[j][1], arquivo[j][2], arquivo[j][3])
                           ELSE jogos[j]]
        novos_palpites == PontuarJogos(palpites, encontrados, novos_jogos)
        semanas_afetadas == { jogos[j].semana : j \in encontrados }
    IN  /\ RankearFinalizadas(novos_jogos, novos_palpites, semanas_afetadas, falha)
        /\ ultima' = Requisicao("importar_resultados", semanas_afetadas,
                                Rankeadas(novos_jogos, semanas_afetadas, falha), falha, {})

\* The id of a new row of the table jogo (SQLite: the largest id plus one).
NovoId ==
    IF DOMAIN jogos = {} THEN 1
    ELSE (CHOOSE j \in DOMAIN jogos : \A k \in DOMAIN jogos : k <= j) + 1

\* Mutant of importar_jogos_externos: the scorer is called for the game of
\* the record before the commit.
importar_jogos_externos_ComPontuacao(id_externo, semana, campos) ==
    LET novo == IF id_externo \in DOMAIN jogos
                THEN [jogos[id_externo] EXCEPT
                         !.semana = semana,
                         !.resultado = IF campos[1] # None THEN campos[1] ELSE @,
                         !.placar_time1_final = IF campos[2] # NULO THEN campos[2] ELSE @,
                         !.placar_time2_final = IF campos[3] # NULO THEN campos[3] ELSE @]
                ELSE Jogo(semana, SabadoTarde, campos[1], campos[2], campos[3])
    IN  /\ id_externo \in DOMAIN jogos \/ (id_externo = NovoId /\ NovoId <= MaxJogos)
        /\ jogos' = (id_externo :> novo) @@ jogos
        /\ palpites' = PalpitesPontuados(palpites, id_externo, novo)
        /\ ultima' = Requisicao("importar_jogos", {}, {}, FALSE, {})
        /\ UNCHANGED <<participantes, pontuacoes_rodada>>

\* POST /importar_jogos with a file of one record, whose id_externo is that
\* of the game id_externo or that of no game; campos are the result fields
\* of the record. Neither the scorer nor the ranker is called.
importar_jogos_externos(id_externo, semana, campos) ==
    IF id_externo \in DOMAIN jogos
    THEN /\ jogos' = [jogos EXCEPT ![id_externo] =
                        [@ EXCEPT !.semana = semana,
                                  !.resultado = IF campos[1] # None THEN campos[1] ELSE @,
                                  !.placar_time1_final = IF campos[2] # NULO THEN campos[2] ELSE @,
                                  !.placar_time2_final = IF campos[3] # NULO THEN campos[3] ELSE @]]
         /\ ultima' = Requisicao("importar_jogos", {}, {}, FALSE, {})
         /\ UNCHANGED <<participantes, palpites, pontuacoes_rodada>>
    ELSE /\ id_externo = NovoId
         /\ NovoId <= MaxJogos
         /\ jogos' = (NovoId :> Jogo(semana, SabadoTarde, campos[1], campos[2], campos[3])) @@ jogos
         /\ ultima' = Requisicao("importar_jogos", {}, {}, FALSE, {})
         /\ UNCHANGED <<participantes, palpites, pontuacoes_rodada>>

\* POST /adicionar_jogo
adicionar_jogo(semana) ==
    /\ NovoId <= MaxJogos
    /\ jogos' = (NovoId :> Jogo(semana, SabadoTarde, None, NULO, NULO)) @@ jogos
    /\ ultima' = Requisicao("adicionar_jogo", {}, {}, FALSE, {})
    /\ UNCHANGED <<participantes, palpites, pontuacoes_rodada>>

\* Mutant of SemJogo: the palpites of the game stay.
SemJogo_SemCascata(tabela, jogo_id) == tabela

\* The table palpite after db.session.delete(jogo): the cascade of
\* Jogo.palpites deletes the palpites of the game.
SemJogo(tabela, jogo_id) == { p \in tabela : p.jogo_id # jogo_id }

\* POST /gerenciar_jogos with delete_jogo
gerenciar_jogos(jogo_id, falha) ==
    IF jogo_id \notin DOMAIN jogos THEN ~ falha /\ Recusada
    ELSE LET semana_do_jogo_excluido == jogos[jogo_id].semana
             novos_jogos == [j \in DOMAIN jogos \ {jogo_id} |-> jogos[j]]
             novos_palpites == SemJogo(palpites, jogo_id)
         IN  /\ RankearFinalizadas(novos_jogos, novos_palpites, {semana_do_jogo_excluido}, falha)
             /\ ultima' = Requisicao("gerenciar_jogos", {semana_do_jogo_excluido},
                                     Rankeadas(novos_jogos, {semana_do_jogo_excluido}, falha),
                                     falha,
                                     { p.participante_id : p \in palpites \ novos_palpites })

\* POST /editar_jogo/<jogo_id>; formulario = <<resultado, placar_time1_final_str,
\* placar_time2_final_str>>: the text 'None' of the select is no resultado, a
\* placar left blank is no placar.
editar_jogo(jogo_id, semana, formulario, falha) ==
    LET resultado_final == IF formulario[1] # "None" THEN formulario[1] ELSE None
        placar_time1_final == formulario[2]
        placar_time2_final == formulario[3]
        aceito ==
            /\ jogo_id \in DOMAIN jogos
            /\ placar_time1_final # NaoInteiro /\ placar_time2_final # NaoInteiro
    IN  IF ~ aceito THEN ~ falha /\ Recusada
        ELSE LET semana_antiga == jogos[jogo_id].semana
                 jogo == ComResultado([jogos[jogo_id] EXCEPT !.semana = semana], resultado_final,
                                      placar_time1_final, placar_time2_final)
                 novos_jogos == [jogos EXCEPT ![jogo_id] = jogo]
                 novos_palpites == PalpitesPontuados(palpites, jogo_id, jogo)
                 semanas_para_recalcular == {semana_antiga, jogo.semana}
             IN  /\ RankearFinalizadas(novos_jogos, novos_palpites, semanas_para_recalcular, falha)
                 /\ ultima' = Requisicao("editar_jogo", semanas_para_recalcular,
                                         Rankeadas(novos_jogos, semanas_para_recalcular, falha),
                                         falha, {})

\* Mutant of SemParticipante: the rows of the participant stay.
SemParticipante_SemCascata(tabela, participante_id) == tabela

\* A table with a column participante_id after db.session.delete(participante):
\* the cascades of Participante.palpites and Participante.pontuacoes_rodada
\* delete the rows of the participant.
SemParticipante(tabela, participante_id) ==
    { r \in tabela : r.participante_id # participante_id }

\* POST /gerenciar_participantes with delete_participante
gerenciar_participantes(participante_id) ==
    IF participante_id \notin participantes
    THEN Recusada
    ELSE /\ participantes' = participantes \ {participante_id}
         /\ palpites' = SemParticipante(palpites, participante_id)
         /\ pontuacoes_rodada' = SemParticipante(pontuacoes_rodada, participante_id)
         /\ ultima' = Requisicao("gerenciar_participantes", {}, {}, FALSE,
                                 { r.participante_id :
                                     r \in (palpites \ palpites') \cup
                                           (pontuacoes_rodada \ pontuacoes_rodada') })
         /\ UNCHANGED jogos

\* POST /calcular_f1_rodada
calcular_f1_rodada(semana) ==
    IF semana < 1 THEN Recusada
    ELSE /\ \E desempate \in Desempates :
              pontuacoes_rodada' =
                 RodadaRecalculada(pontuacoes_rodada, semana,
                                   Ordenado(pontuacoes_raw_por_participante(semana), desempate))
         /\ ultima' = Requisicao("calcular_f1_rodada", {}, {semana}, FALSE, {})
         /\ UNCHANGED <<participantes, jogos, palpites>>

\* ------------------------------------------------------------------------
\* Specification of the admin routes: MaxJogos games of round 1 without a
\* result, NumApostadores participants, each with the palpite "empate 0-0"
\* on every game.
\* ------------------------------------------------------------------------
FormulariosDeResultado ==
    { ResultadoEmpate, <<"empate", NULO, 0>>, <<"empate", 0, NaoInteiro>> }

FormulariosDeEdicao == { ResultadoEmpate, SemResultado, SoResultado }

\* The files of results: one or two records of game ids of 1..MaxJogos,
\* all with a full result or all with the tag alone.
ArquivosDeResultados ==
    { [j \in ids |-> campos] :
        ids \in { s \in SUBSET (1..MaxJogos) : Cardinality(s) \in {1, 2} },
        campos \in {ResultadoEmpate, SoResultado} }

InitAdmin ==
    /\ participantes = 1..NumApostadores
    /\ jogos = [j \in 1..MaxJogos |-> Jogo(1, SabadoTarde, None, NULO, NULO)]
    /\ palpites = { Palpite(p, j, "empate", 0, 0, 0) : p \in 1..NumApostadores, j \in 1..MaxJogos }
    /\ pontuacoes_rodada = {}
    /\ ultima = Operacao("init", 0, 0, FALSE, 0, {}, {})

NextAdmin ==
    \/ \E jogo_id \in 1..MaxJogos, formulario \in FormulariosDeResultado, falha \in BOOLEAN :
          definir_resultado(jogo_id, formulario, falha)
    \/ \E arquivo \in ArquivosDeResultados, falha \in BOOLEAN :
          importar_resultados_json_route(arquivo, falha)
    \/ \E id_externo \in 1..MaxJogos, semana \in 1..NumSemanas,
          campos \in {SemResultado, SoResultado} :
          importar_jogos_externos(id_externo, semana, campos)
    \/ \E semana \in 1..NumSemanas : adicionar_jogo(semana)
    \/ \E jogo_id \in 1..MaxJogos, falha \in BOOLEAN : gerenciar_jogos(jogo_id, falha)
    \/ \E jogo_id \in 1..MaxJogos, semana \in 1..NumSemanas,
          formulario \in FormulariosDeEdicao, falha \in BOOLEAN :
          editar_jogo(jogo_id, semana, formulario, falha)
    \/ \E semana \in 0..NumSemanas : calcular_f1_rodada(semana)

SpecAdmin == InitAdmin /\ [][NextAdmin]_vars

\* ------------------------------------------------------------------------
\* Specification of the deletions: the two routes that delete, with the
\* route that gives the participants raw points and PontuacaoRodada rows and
\* the route that makes a new game of round 1 (with the id of the game
\* deleted last, if that had the largest id).
\* ------------------------------------------------------------------------
NextExclusoes ==
    \/ \E jogo_id \in 1..MaxJogos, falha \in BOOLEAN : gerenciar_jogos(jogo_id, falha)
    \/ \E participante_id \in 1..NumApostadores : gerenciar_participantes(participante_id)
    \/ \E jogo_id \in 1..MaxJogos, falha \in BOOLEAN :
          definir_resultado(jogo_id, ResultadoEmpate, falha)
    \/ adicionar_jogo(1)

SpecExclusoes == InitAdmin /\ [][NextExclusoes]_vars

\* ------------------------------------------------------------------------
\* Specification of the import of games: the route /importar_jogos with
\* records that carry no result, the tag alone or a full result, with the
\* route that gives the palpites raw points and the rounds PontuacaoRodada
\* rows and the route that deletes a game (after which a record of the file
\* makes a new game).
\* ------------------------------------------------------------------------
CamposDeJogo == { SemResultado, SoResultado, ResultadoEmpate }

NextImportacao ==
    \/ \E id_externo \in 1..MaxJogos, semana \in 1..NumSemanas, campos \in CamposDeJogo :
          importar_jogos_externos(id_externo, semana, campos)
    \/ \E jogo_id \in 1..MaxJogos, falha \in BOOLEAN :
          definir_resultado(jogo_id, ResultadoEmpate, falha)
    \/ \E jogo_id \in 1..MaxJogos, falha \in BOOLEAN : gerenciar_jogos(jogo_id, falha)

SpecImportacao == InitAdmin /\ [][NextImportacao]_vars

\* ------------------------------------------------------------------------
\* Specification of the entry of results: the form and the file of results,
\* with the import of games that moves a game to another round (so that a
\* request completes a round of one game, or two rounds at once).
\* ------------------------------------------------------------------------
NextResultados ==
    \/ \E jogo_id \in 1..MaxJogos, formulario \in FormulariosDeResultado, falha \in BOOLEAN :
          definir_resultado(jogo_id, formulario, falha)
    \/ \E arquivo \in ArquivosDeResultados, falha \in BOOLEAN :
          importar_resultados_json_route(arquivo, falha)
    \/ \E id_externo \in 1..MaxJogos, semana \in 1..NumSemanas :
          importar_jogos_externos(id_externo, semana, SemResultado)

SpecResultados == InitAdmin /\ [][NextResultados]_vars

\* ------------------------------------------------------------------------
\* The copies of the scorer and of the ranker in app.py
\* ------------------------------------------------------------------------
\* calcular_e_atualizar_pontuacoes_jogo of app.py: a game without a full
\* result returns False before any palpite is read; the loop is that of
\* the other copy.
PalpitesPontuados_app(tabela, jogo_id, jogo) ==
    IF ~ TemResultado(jogo) THEN tabela
    ELSE { IF p.jogo_id = jogo_id
             THEN [p EXCEPT !.pontuacao_recebida = PontuacaoAtual(p, jogo)]
             ELSE p : p \in tabela }

\* calcular_pontos_f1_por_rodada of app.py: the same aggregate and the same
\* walk; the row of each participant of the walk is updated if the round has
\* one for them and added if not, and no row is deleted.
RodadaRecalculada_app(tabela, semana, lista) ==
    LET novas == Percorrer(lista, 0, 0, -1, semana)
        existentes == { r \in tabela :
                          \E n \in novas : /\ n.participante_id = r.participante_id
                                           /\ n.semana = r.semana }
    IN  (tabela \ existentes) \cup novas

\* ------------------------------------------------------------------------
\* Claims on the Game Scorer (checked under SpecScorer)
\* ------------------------------------------------------------------------
JogoPontuado == jogos[ultima.jogo]
PalpitesDoJogoPontuado == { p \in palpites : p.jogo_id = ultima.jogo }

Finalizado(jogo) ==
    /\ jogo.resultado # None
    /\ jogo.placar_time1_final # NULO
    /\ jogo.placar_time2_final # NULO

PlacarExato(p, jogo) ==
    p.placar_time1 = jogo.placar_time1_final /\ p.placar_time2 = jogo.placar_time2_final

MesmaDiferenca(p, jogo) ==
    abs(p.placar_time1 - p.placar_time2)
        = abs(jogo.placar_time1_final - jogo.placar_time2_final)

EhPrime(jogo) ==
    /\ hour(jogo.data_hora) \in 0..4
    /\ weekday(jogo.data_hora) \in {0, 1, 4}

\* C1: after the scorer ran on a finalized game, every palpite on it whose
\* escolha differs from the game's resultado holds 0 raw points, whatever the
\* scores and whether or not the game is prime; an 'empate' palpite holds 0
\* unless the resultado is 'empate', even when the final scores are equal.
C1_ErrouResultadoZero ==
    (ultima.op = "pontuar" /\ Finalizado(JogoPontuado)) =>
        \A p \in PalpitesDoJogoPontuado :
            p.escolha # JogoPontuado.resultado => p.pontuacao_recebida = 0

W_C1_EmpateErradoPlacarExato ==
    /\ ultima.op = "pontuar" /\ Finalizado(JogoPontuado)
    /\ EhPrime(JogoPontuado)
    /\ JogoPontuado.resultado # "empate"
    /\ JogoPontuado.placar_time1_final = JogoPontuado.placar_time2_final
    /\ \E p \in PalpitesDoJogoPontuado :
          /\ p.escolha = "empate" /\ PlacarExato(p, JogoPontuado)
          /\ p.participante_id \in ultima.sujos

C3_NaoPrimeUmOuDois ==
    (ultima.op = "pontuar" /\ Finalizado(JogoPontuado) /\ ~ EhPrime(JogoPontuado)) =>
        \A p \in PalpitesDoJogoPontuado :
            p.escolha = JogoPontuado.resultado =>
                /\ PlacarExato(p, JogoPontuado) => p.pontuacao_recebida = 2
                /\ (~ PlacarExato(p, JogoPontuado) /\ MesmaDiferenca(p, JogoPontuado))
                      => p.pontuacao_recebida = 2
                /\ (~ PlacarExato(p, JogoPontuado) /\ ~ MesmaDiferenca(p, JogoPontuado))
                      => p.pontuacao_recebida = 1

W_C3_NaoPrimeSoDiferenca ==
    /\ ultima.op = "pontuar" /\ Finalizado(JogoPontuado) /\ ~ EhPrime(JogoPontuado)
    /\ \E p \in PalpitesDoJogoPontuado :
          /\ p.escolha = JogoPontuado.resultado
          /\ ~ PlacarExato(p, JogoPontuado) /\ MesmaDiferenca(p, JogoPontuado)
          /\ p.placar_time1 # p.placar_time2

\* C8: a second run of the scorer on the same finalized game, right after the
\* first, leaves the table Palpite as the first run left it.
C8_PontuarDuasVezes ==
    [][ ( /\ ultima.op = "pontuar" /\ ultima'.op = "pontuar"
          /\ ultima'.jogo = ultima.jogo
          /\ Finalizado(jogos[ultima.jogo]) )
        => palpites' = palpites ]_vars

W_C8_SegundaExecucao ==
    /\ ultima.op = "pontuar" /\ ultima.execucoes = 2
    /\ Finalizado(JogoPontuado)
    /\ \E p \in PalpitesDoJogoPontuado : p.pontuacao_recebida > 0

\* C10: the scorer returns True exactly when resultado and both final scores
\* of the game are set; when one of them is unset it leaves 0 raw points on
\* every palpite of the game, those scored before included.
C10_SemResultadoZera ==
    ultima.op = "pontuar" =>
        /\ ultima.retorno <=> Finalizado(JogoPontuado)
        /\ ~ Finalizado(JogoPontuado) =>
              \A p \in PalpitesDoJogoPontuado : p.pontuacao_recebida = 0

W_C10_ZerouPalpitePontuado ==
    /\ ultima.op = "pontuar" /\ ~ ultima.retorno
    /\ JogoPontuado.resultado # None
    /\ JogoPontuado.placar_time1_final # NULO
    /\ JogoPontuado.placar_time2_final = NULO
    /\ ultima.sujos # {}

\* ------------------------------------------------------------------------
\* Claims on the Round Ranker (checked under SpecRanker)
\* ------------------------------------------------------------------------
JogosDaSemana(semana) == { j \in DOMAIN jogos : jogos[j].semana = semana }

\* The participants with a palpite on a game of the round, and their raw totals.
NaRodada(semana) ==
    { pid \in participantes :
        \E p \in palpites : p.participante_id = pid /\ p.jogo_id \in JogosDaSemana(semana) }

RECURSIVE TotalNosJogos(_, _)
TotalNosJogos(pid, js) ==
    IF js = {} THEN 0
    ELSE LET j == CHOOSE x \in js : TRUE
             doJogo == { p \in palpites : p.participante_id = pid /\ p.jogo_id = j }
         IN  (IF doJogo = {} THEN 0 ELSE (CHOOSE p \in doJogo : TRUE).pontuacao_recebida)
               + TotalNosJogos(pid, js \ {j})

TotalRaw(pid, semana) == TotalNosJogos(pid, JogosDaSemana(semana))

LinhasDe(pid, semana) ==
    { r \in pontuacoes_rodada : r.participante_id = pid /\ r.semana = semana }

\* The number of participants of the round with a strictly greater raw total.
Acima(pid, semana) ==
    Cardinality({ q \in NaRodada(semana) : TotalRaw(q, semana) > TotalRaw(pid, semana) })

\* The aggregate of the round is exactly three participants with 10, 10 and 7.
DezDezSete(semana) ==
    /\ Cardinality(NaRodada(semana)) = 3
    /\ Cardinality({ q \in NaRodada(semana) : TotalRaw(q, semana) = 10 }) = 2
    /\ Cardinality({ q \in NaRodada(semana) : TotalRaw(q, semana) = 7 }) = 1

\* C4 as claimed: after the ranker ran on a round whose aggregate is exactly
\* three participants with raw totals 10, 10 and 7, the rows of the round are
\* 25, 25 and 18 points (positions 0, 0, 1).
C4_Original_DezDezSete_25_25_18 ==
    (ultima.op = "ranker" /\ DezDezSete(ultima.semana)) =>
        \A pid \in NaRodada(ultima.semana) :
            LinhasDe(pid, ultima.semana) =
                { PontuacaoRodada(pid, ultima.semana,
                                  IF TotalRaw(pid, ultima.semana) = 10 THEN 25 ELSE 18) }

\* C4 amended: after the ranker ran on a round whose aggregate is exactly
\* three participants with raw totals 10, 10 and 7, the rows of the round are
\* 25, 25 and 15 points (positions 0, 0, 2): the participant right after a
\* two-way tie takes the table entry of its own list index.
C4_DezDezSete_25_25_15 ==
    (ultima.op = "ranker" /\ DezDezSete(ultima.semana)) =>
        /\ \A pid \in NaRodada(ultima.semana) :
              LinhasDe(pid, ultima.semana) =
                  { PontuacaoRodada(pid, ultima.semana,
                                    IF TotalRaw(pid, ultima.semana) = 10 THEN 25 ELSE 15) }
        /\ Cardinality({ r \in pontuacoes_rodada : r.semana = ultima.semana }) = 3

W_C4_DezDezSete == ultima.op = "ranker" /\ DezDezSete(ultima.semana)

\* C5: after the ranker ran on a round, every participant with a nonzero raw
\* total in the round has position k = the number of participants with a
\* strictly greater raw total, and when k < 10 its one row of the round holds
\* the k-th entry of 25, 18, 15, 12, 10, 8, 6, 4, 2, 1; participants with
\* equal nonzero raw totals hold equal points.
C5_PosicaoPorTotal ==
    ultima.op = "ranker" =>
        LET s == ultima.semana
            pontuaram == { pid \in NaRodada(s) : TotalRaw(pid, s) # 0 }
        IN  /\ \A pid \in pontuaram :
                  Acima(pid, s) < 10 =>
                      LinhasDe(pid, s) =
                          { PontuacaoRodada(pid, s,
                                <<25, 18, 15, 12, 10, 8, 6, 4, 2, 1>>[Acima(pid, s) + 1]) }
            /\ \A pid, q \in pontuaram :
                  TotalRaw(pid, s) = TotalRaw(q, s) =>
                      { r.pontos_f1 : r \in LinhasDe(pid, s) }
                          = { r.pontos_f1 : r \in LinhasDe(q, s) }

W_C5_EmpateSeguidoDeMenor ==
    /\ ultima.op = "ranker"
    /\ \E pid, q, x \in NaRodada(ultima.semana) :
          /\ pid # q
          /\ TotalRaw(pid, ultima.semana) = TotalRaw(q, ultima.semana)
          /\ TotalRaw(x, ultima.semana) < TotalRaw(pid, ultima.semana)
          /\ TotalRaw(x, ultima.semana) # 0
          /\ Acima(pid, ultima.semana) > 0
          /\ LinhasDe(x, ultima.semana) # {}

\* C6: after the ranker ran on a round, a participant whose raw total in the
\* round is 0 has no PontuacaoRodada row for the round, also when a row of
\* an earlier run existed.
C6_TotalZeroSemLinha ==
    ultima.op = "ranker" =>
        \A pid \in NaRodada(ultima.semana) :
            TotalRaw(pid, ultima.semana) = 0 => LinhasDe(pid, ultima.semana) = {}

W_C6_LinhaAntigaApagada ==
    /\ ultima.op = "ranker"
    /\ \E pid \in NaRodada(ultima.semana) :
          /\ TotalRaw(pid, ultima.semana) = 0
          /\ pid \in ultima.apagados
    /\ \E r \in pontuacoes_rodada : r.semana = ultima.semana

\* C7 as claimed: the ranker writes no row of 0 points: after it ran on a
\* round, every row of the round holds one of 25, 18, 15, 12, 10, 8, 6, 4, 2, 1.
C7_SemLinhaDeZeroPontos ==
    ultima.op = "ranker" =>
        \A r \in pontuacoes_rodada :
            r.semana = ultima.semana => r.pontos_f1 \in {25, 18, 15, 12, 10, 8, 6, 4, 2, 1}

\* C9: a second run of the ranker on the same round, right after the first,
\* leaves the table PontuacaoRodada as the first run left it, whatever it
\* held before the first run.
C9_RankerDuasVezes ==
    [][ (ultima.op = "ranker" /\ ultima'.op = "ranker" /\ ultima'.semana = ultima.semana)
        => pontuacoes_rodada' = pontuacoes_rodada ]_vars

W_C9_SegundaExecucao ==
    /\ ultima.op = "ranker" /\ ultima.execucoes = 2
    /\ \E pid, q \in NaRodada(ultima.semana) :
          /\ pid # q
          /\ TotalRaw(pid, ultima.semana) = TotalRaw(q, ultima.semana)
          /\ LinhasDe(pid, ultima.semana) # {}
    /\ \E r \in pontuacoes_rodada : r.semana # ultima.semana

\* ------------------------------------------------------------------------
\* Claims on the predicates (checked under SpecFinalizados and SpecPrime)
\* ------------------------------------------------------------------------
ResultadoCompleto(jogo) ==
    /\ jogo.resultado # None
    /\ jogo.placar_time1_final # NULO
    /\ jogo.placar_time2_final # NULO

\* A round is complete: it has a game and no game of it lacks a result field.
RodadaCompleta(semana) ==
    /\ \E j \in DOMAIN jogos : jogos[j].semana = semana
    /\ ~ \E j \in DOMAIN jogos : jogos[j].semana = semana /\ ~ ResultadoCompleto(jogos[j])

\* C11: todos_jogos_semana_finalizados returns True for a round exactly when
\* the round has at least one game and every game of it has resultado and
\* both final scores set; it returns False for a round without games and for
\* a round where one result field of one game is unset.
C11_FinalizadosSse ==
    ultima.op = "finalizados" =>
        /\ ultima.retorno <=> RodadaCompleta(ultima.semana)
        /\ JogosDaSemana(ultima.semana) = {} => ~ ultima.retorno
        /\ (\E j \in JogosDaSemana(ultima.semana) :
               \/ jogos[j].resultado = None
               \/ jogos[j].placar_time1_final = NULO
               \/ jogos[j].placar_time2_final = NULO) => ~ ultima.retorno

W_C11_UmCampoFaltando ==
    /\ ultima.op = "finalizados" /\ ~ ultima.retorno
    /\ Cardinality(JogosDaSemana(ultima.semana)) = 3
    /\ \E j \in JogosDaSemana(ultima.semana) :
          /\ jogos[j].resultado # None
          /\ jogos[j].placar_time1_final # NULO
          /\ jogos[j].placar_time2_final = NULO
          /\ \A k \in JogosDaSemana(ultima.semana) \ {j} : ResultadoCompleto(jogos[k])

\* C14: is_prime_game returns True exactly when the UTC hour of the start is
\* in 0..4 and the UTC weekday is Friday, Monday or Tuesday: Friday 02:00 is
\* prime; Saturday 18:00, Monday 05:00 and Sunday 02:00 are not.
C14_PrimeSse ==
    ultima.op = "prime" =>
        LET d == jogos[ultima.jogo].data_hora
        IN  /\ ultima.retorno <=>
                  \E dia \in {0, 1, 4} : \E hora \in 0..4 : d = dia * 24 + hora
            /\ d = 4 * 24 + 2 => ultima.retorno
            /\ d \in {5 * 24 + 18, 0 * 24 + 5, 6 * 24 + 2} => ~ ultima.retorno

W_C14_SegundaAs5 ==
    /\ ultima.op = "prime" /\ ~ ultima.retorno
    /\ jogos[ultima.jogo].data_hora = 0 * 24 + 5

\* ------------------------------------------------------------------------
\* Claims on the prediction submission (checked under SpecPalpitar)
\* ------------------------------------------------------------------------
PalpitesDoPar(participante_id, jogo_id) ==
    { p \in palpites : p.participante_id = participante_id /\ p.jogo_id = jogo_id }

\* C16: there is at most one Palpite per (participant, game) pair; after an
\* accepted submission the pair has exactly one row, and it holds the
\* submitted escolha and placares, also when the pair had a row before.
C16_UmPalpitePorPar ==
    /\ \A participante_id \in participantes : \A jogo_id \in DOMAIN jogos :
          Cardinality(PalpitesDoPar(participante_id, jogo_id)) <= 1
    /\ (ultima.op = "palpitar" /\ ultima.retorno) =>
          \E p \in palpites :
              /\ PalpitesDoPar(ultima.participante, ultima.jogo) = {p}
              /\ <<p.escolha, p.placar_time1, p.placar_time2>> = ultima.formulario

W_C16_Sobrescreveu ==
    /\ ultima.op = "palpitar" /\ ultima.retorno
    /\ ultima.apagados = {ultima.participante}
    /\ ultima.formulario = <<"empate", 0, 0>>
    /\ Cardinality(palpites) = 2 * NumApostadores

\* C18: a submission writes a Palpite only if the start of the game is
\* strictly after the moment of the submission.
C18_SoAntesDoInicio ==
    (ultima.op = "palpitar" /\ ultima.retorno) =>
        jogos[ultima.jogo].data_hora > ultima.agora

\* ------------------------------------------------------------------------
\* Claims on the admin routes (checked under SpecAdmin and SpecExclusoes)
\* ------------------------------------------------------------------------
\* The routes that call the ranker after testing the round.
RotasAutomaticas ==
    {"definir_resultado", "importar_resultados", "editar_jogo", "gerenciar_jogos"}

\* The routes that enter a result.
RotasDeResultado == {"definir_resultado", "importar_resultados", "editar_jogo"}

\* A round of three games, two with a full result and one without the tag.
TresJogosUmSemResultado(semana) ==
    /\ Cardinality(JogosDaSemana(semana)) = 3
    /\ \E j \in JogosDaSemana(semana) :
          /\ jogos[j].resultado = None
          /\ \A k \in JogosDaSemana(semana) \ {j} : ResultadoCompleto(jogos[k])

\* C12: the result form, the import of results, the edit and the deletion
\* of a game call the ranker only for a round that is complete at that
\* moment; for a round of 3 games of which one has no resultado none of them
\* calls it.
C12_RankerSoEmRodadaCompleta ==
    ultima.op \in RotasAutomaticas =>
        /\ \A semana \in ultima.rankeadas : RodadaCompleta(semana)
        /\ \A semana \in ultima.afetadas :
              TresJogosUmSemResultado(semana) => semana \notin ultima.rankeadas

W_C12_TresJogosUmSemResultado ==
    /\ ultima.op = "importar_resultados"
    /\ \E semana \in ultima.afetadas : TresJogosUmSemResultado(semana)
    /\ ultima.rankeadas = {}

\* The rows that a run of the ranker on the round leaves: one for each
\* participant with a positive raw total.
RankerGravado(semana) ==
    \A pid \in participantes : TotalRaw(pid, semana) > 0 => LinhasDe(pid, semana) # {}

\* C13: after a request that entered a result, committed the raw points and
\* completed a round, the PontuacaoRodada rows of that round are committed
\* too, also when the request failed part-way.
C13_GravacaoAtomica ==
    ultima.op \in RotasDeResultado =>
        \A semana \in ultima.afetadas : RodadaCompleta(semana) => RankerGravado(semana)

\* C15: every game has resultado and both placares all set or all unset.
C15_ResultadoTudoOuNada ==
    \A j \in DOMAIN jogos :
        \/ ResultadoCompleto(jogos[j])
        \/ /\ jogos[j].resultado = None
           /\ jogos[j].placar_time1_final = NULO
           /\ jogos[j].placar_time2_final = NULO

\* C17: after any runs of the ranker, on any rounds, also repeated on a
\* round whose raw points changed since the rows were written, there is at
\* most one PontuacaoRodada row per participant and round.
C17_UmaLinhaPorParticipanteERodada ==
    \A pid \in participantes : \A semana \in 1..NumSemanas :
        Cardinality(LinhasDe(pid, semana)) <= 1

W_C17_LinhasAntigasRefeitas ==
    /\ ultima.op = "ranker"
    /\ ultima.apagados = participantes
    /\ \E r \in pontuacoes_rodada : r.semana = ultima.semana /\ r.pontos_f1 = 18
    /\ \E r \in pontuacoes_rodada : r.semana # ultima.semana

\* C19: every palpite references a game and a participant of the store and
\* every PontuacaoRodada row a participant of the store, so after the
\* deletion of a game no palpite of it remains and after the deletion of a
\* participant none of their palpites and PontuacaoRodada rows remain.
C19_IntegridadeReferencial ==
    /\ \A p \in palpites : p.jogo_id \in DOMAIN jogos /\ p.participante_id \in participantes
    /\ \A r \in pontuacoes_rodada : r.participante_id \in participantes

W_C19_ParticipanteComLinhasExcluido ==
    /\ ultima.op = "gerenciar_participantes"
    /\ ultima.apagados # {}
    /\ ultima.apagados \cap participantes = {}
    /\ palpites # {} /\ pontuacoes_rodada # {}
    /\ Cardinality(DOMAIN jogos) < MaxJogos

\* C20: the ranker runs only for a complete round, whichever route calls
\* it, the manual recalculation included.
C20_RankerNuncaEmRodadaIncompleta ==
    ultima.op \in RotasAutomaticas \cup {"calcular_f1_rodada"} =>
        \A semana \in ultima.rankeadas : RodadaCompleta(semana)

\* ------------------------------------------------------------------------
\* Frame of the scorer and of the ranker
\* ------------------------------------------------------------------------
SemPontos(p) == [p EXCEPT !.pontuacao_recebida = 0]

\* C23: a run of the scorer on a game changes only pontuacao_recebida of
\* the palpites of that game: the palpites of other games, escolha and the
\* placares of its own palpites, the games and the PontuacaoRodada rows stay.
C23_PontuarSoMudaPontosDoJogo ==
    [][ultima'.op = "pontuar" =>
          /\ { p \in palpites' : p.jogo_id # ultima'.jogo } =
             { p \in palpites : p.jogo_id # ultima'.jogo }
          /\ { SemPontos(p) : p \in palpites' } = { SemPontos(p) : p \in palpites }
          /\ Cardinality(palpites') = Cardinality(palpites)
          /\ jogos' = jogos
          /\ pontuacoes_rodada' = pontuacoes_rodada
          /\ participantes' = participantes]_vars

W_C23_OutroJogoComPontos ==
    /\ ultima.op = "pontuar" /\ ultima.sujos # {}
    /\ \E p \in palpites : p.jogo_id # ultima.jogo /\ p.pontuacao_recebida = 5
    /\ \E p \in palpites : p.jogo_id = ultima.jogo /\ p.pontuacao_recebida = 2

\* C24: a run of the ranker on a round replaces only the PontuacaoRodada
\* rows of that round: the rows of the other rounds, the palpites and the
\* games stay.
C24_RankerSoMudaARodada ==
    [][ultima'.op = "ranker" =>
          /\ { r \in pontuacoes_rodada' : r.semana # ultima'.semana } =
             { r \in pontuacoes_rodada : r.semana # ultima'.semana }
          /\ palpites' = palpites
          /\ jogos' = jogos
          /\ participantes' = participantes]_vars

W_C24_OutraRodadaIntacta ==
    /\ ultima.op = "ranker" /\ ultima.execucoes = 1
    /\ ultima.apagados # {}
    /\ \E r \in pontuacoes_rodada : r.semana = ultima.semana /\ r.pontos_f1 # 25
    /\ Cardinality({ r \in pontuacoes_rodada : r.semana # ultima.semana }) = MaxParticipantes

\* ------------------------------------------------------------------------
\* Claims on the two copies of the scorer and of the ranker
\* ------------------------------------------------------------------------
\* C26: from the same store the ranker of app.py (upsert) leaves the rows
\* that the ranker of 'app copy 8.py' (delete, then insert) leaves.
C26_RankersEquivalentes ==
    [][ultima'.op = "ranker" =>
          \E desempate \in Desempates :
              pontuacoes_rodada' =
                  RodadaRecalculada_app(pontuacoes_rodada, ultima'.semana,
                      Ordenado(pontuacoes_raw_por_participante(ultima'.semana), desempate))]_vars

\* C30: from the same store the scorer of app.py leaves on every palpite
\* the pontuacao_recebida that the scorer of 'app copy 8.py' leaves.
C30_ScorersEquivalentes ==
    [][ultima'.op = "pontuar" =>
          palpites' = PalpitesPontuados_app(palpites, ultima'.jogo, jogos[ultima'.jogo])]_vars

\* ------------------------------------------------------------------------
\* Claims on the import of games
\* ------------------------------------------------------------------------

\* C25: a request of /importar_jogos changes no palpite (so no raw points)
\* and no PontuacaoRodada row, whatever the record carries: a result, or
\* another round or other result fields for a game that exists.
C25_ImportarJogosNaoPontua ==
    [][ultima'.op = "importar_jogos" =>
          /\ palpites' = palpites
          /\ pontuacoes_rodada' = pontuacoes_rodada]_vars

\* The request before was an import of games that left a game with a full
\* result whose palpites would score but hold 0 points, while palpites of
\* other games hold points and PontuacaoRodada rows exist.
W_C25_ImportouResultadoSemPontuar ==
    /\ ultima.op = "importar_jogos"
    /\ \E p \in palpites :
          /\ p.jogo_id \in DOMAIN jogos
          /\ TemResultado(jogos[p.jogo_id])
          /\ PontuacaoAtual(p, jogos[p.jogo_id]) > 0
          /\ p.pontuacao_recebida = 0
    /\ \E p \in palpites : p.pontuacao_recebida > 0
    /\ pontuacoes_rodada # {}

\* C27: the points stored on each palpite are those that the scorer gives
\* for the current fields of the palpite and of its game, and 0 when the
\* game has no full result.
C27_PontosIguaisARegra ==
    \A p \in palpites :
        p.jogo_id \in DOMAIN jogos =>
            p.pontuacao_recebida =
                IF TemResultado(jogos[p.jogo_id])
                THEN PontuacaoAtual(p, jogos[p.jogo_id])
                ELSE 0

\* ------------------------------------------------------------------------
\* Claims on the PontuacaoRodada rows as a view of the raw points
\* ------------------------------------------------------------------------

\* C28: PontuacaoRodada rows exist only for rounds that are complete: no
\* request leaves rows behind for a round that it made incomplete.
C28_LinhasSoEmRodadaCompleta ==
    \A r \in pontuacoes_rodada : RodadaCompleta(r.semana)

\* The rows that the ranker writes for the round from the current tables,
\* the participants of equal total taken in the order desempate.
LinhasDoRanker(semana, desempate) ==
    Percorrer(Ordenado(pontuacoes_raw_por_participante(semana), desempate), 0, 0, -1, semana)

\* C29: whenever a round is complete, its PontuacaoRodada rows are those
\* that the ranker produces from the current raw points.
C29_LinhasIguaisAoRanker ==
    \A semana \in 1..NumSemanas :
        RodadaCompleta(semana) =>
            \E desempate \in Desempates :
                { r \in pontuacoes_rodada : r.semana = semana } = LinhasDoRanker(semana, desempate)

\* ------------------------------------------------------------------------
\* Claims on the order of scorer and ranker in a request
\* ------------------------------------------------------------------------

\* C21: when a request of /definir_resultado or /importar_resultados_json
\* runs the ranker for a round, the palpites of every game of the round whose
\* fields the request changed hold the points of the scorer for the new
\* result, and the PontuacaoRodada rows of the round are those of the ranker
\* for the raw points after the scorer (in the import, after the scorer ran
\* for every game of the file).
C21_PontuadoAntesDeRankear ==
    [][ultima'.op \in {"definir_resultado", "importar_resultados"} =>
          \A semana \in ultima'.rankeadas :
              /\ \A j \in DOMAIN jogos' :
                    (jogos'[j].semana = semana /\ jogos'[j] # jogos[j]) =>
                        \A p \in palpites' :
                            p.jogo_id = j =>
                                p.pontuacao_recebida = PontuacaoAtual(p, jogos'[j])
              /\ \E desempate \in Desempates :
                    { r \in pontuacoes_rodada' : r.semana = semana } =
                        Percorrer(Ordenado(Agregado(participantes', jogos', palpites', semana),
                                           desempate), 0, 0, -1, semana)]_vars

\* An import of results completed and ranked two rounds in one request, and
\* every participant has a positive raw total and a row in both.
W_C21_DuasRodadasNumPedido ==
    /\ ultima.op = "importar_resultados"
    /\ ultima.rankeadas = 1..NumSemanas
    /\ \A semana \in 1..NumSemanas : \A pid \in participantes :
          /\ TotalRaw(pid, semana) > 0
          /\ LinhasDe(pid, semana) # {}

\* ------------------------------------------------------------------------
\* Claims on the validation of the result input
\* ------------------------------------------------------------------------
CampoFaltando(campos) == campos[1] = None \/ campos[2] = NULO \/ campos[3] = NULO

\* C22: a request that enters a result with a field missing or a placar that
\* is no integer, by the form or by the file of results, leaves the result
\* fields of the games, the points of the palpites and the PontuacaoRodada
\* rows as they were.
C22_EntradaMalformadaRejeitada ==
    [][/\ \A jogo_id \in 1..MaxJogos, falha \in BOOLEAN :
             \A formulario \in FormulariosDeResultado :
                 (/\ CampoFaltando(formulario) \/ NaoInteiro \in { formulario[2], formulario[3] }
                  /\ definir_resultado(jogo_id, formulario, falha))
                     => UNCHANGED <<jogos, palpites, pontuacoes_rodada>>
       /\ \A arquivo \in ArquivosDeResultados, falha \in BOOLEAN :
             (/\ \E j \in DOMAIN arquivo : CampoFaltando(arquivo[j])
              /\ importar_resultados_json_route(arquivo, falha))
                 => UNCHANGED <<jogos, palpites, pontuacoes_rodada>>]_vars

====
